---- MODULE Spec2Model ----
(***************************************************************************)
(* Correlated log batching and delivery of @exbrain/common-react:          *)
(* utils/logger.ts (ClientLogShipper, getClientRequestIdForLog, the pino   *)
(* browser write hook, LoggerWrapper) and utils/requestId.ts               *)
(* (getRequestId).                                                         *)
(*                                                                         *)
(* JavaScript strings are sequences of one-character strings, so that the  *)
(* two cookie parsers of the code are modelled by what they do.            *)
(***************************************************************************)
EXTENDS Integers, Sequences, FiniteSets, TLC

(***************************************************************************)
(* Bounds of the model.                                                    *)
(***************************************************************************)
\* log calls in one run of the queue specification
MaxLogs == 11
\* log calls in one run of the correlation specification
MaxCorrLogs == 3
\* changes of document.cookie in one run of the correlation specification
MaxCookieSets == 1
\* log calls in one run of the serialization specification
MaxSerLogs == 3
\* log calls of one run whose context cannot be serialized
MaxBad == 1
\* log calls of a run whose transport answers
MaxNetLogs == 11
\* log calls and setLevel calls of a run whose callers use every level
MaxLevelLogs == 2
MaxLevelSets == 1
\* log calls of a run whose callers pass contexts
MaxCtxLogs == 2
\* log calls of two runs in the two runtime modes
MaxModeLogs == 3
\* calls of the facade and of console, and installations of the console
\* adapters, in the console specification
MaxConsoleLogs == 4
MaxPatches == 2
\* log calls in the timer specification
MaxTimerLogs == 3
\* log calls in the endpoint specification
MaxEndpointLogs == 4
\* the base paths of the endpoint specification: none, and one
BasePaths == {"", "/app"}
\* milliseconds by which one step of the clock advances
TickMs == 2500

(***************************************************************************)
(* Program constants.                                                      *)
(***************************************************************************)
BATCH_SIZE == 10
FLUSH_INTERVAL_MS == 5000
REQUEST_ID_COOKIE_NAME == <<"x", "-", "r", "e", "q", "u", "e", "s", "t", "-", "i", "d">>

(***************************************************************************)
(* String primitives of the runtime.                                       *)
(***************************************************************************)
Min(a, b) == IF a < b THEN a ELSE b

\* s.slice(from) with a 0-based index
SliceFrom(s, from) == SubSeq(s, from + 1, Len(s))
\* s.slice(0, to) with a 0-based, exclusive end
SliceTo(s, to) == SubSeq(s, 1, to)

\* s.indexOf(c): 0-based index of the first c, -1 when there is none
IndexOf(s, c) ==
    IF \E i \in 1..Len(s) : s[i] = c
    THEN (CHOOSE i \in 1..Len(s) : s[i] = c /\ \A j \in 1..(i - 1) : s[j] # c) - 1
    ELSE -1

\* s.split(c): the pieces of s between the occurrences of c
RECURSIVE Split(_, _)
Split(s, c) ==
    LET i == IndexOf(s, c)
    IN  IF i < 0 THEN <<s>>
        ELSE <<SliceTo(s, i)>> \o Split(SliceFrom(s, i + 1), c)

RECURSIVE TrimStart(_)
TrimStart(s) == IF s # <<>> /\ Head(s) = " " THEN TrimStart(Tail(s)) ELSE s
RECURSIVE TrimEnd(_)
TrimEnd(s) == IF s # <<>> /\ s[Len(s)] = " " THEN TrimEnd(SliceTo(s, Len(s) - 1)) ELSE s
\* s.trim()
Trim(s) == TrimEnd(TrimStart(s))

HexDigits == <<"0", "1", "2", "3", "4", "5", "6", "7", "8", "9", "A", "B", "C", "D", "E", "F">>
IsHex(c) == \E i \in 1..16 : HexDigits[i] = c
HexVal(c) == (CHOOSE i \in 1..16 : HexDigits[i] = c) - 1

\* the ASCII characters the cookies of the model escape
AsciiChar(b) ==
    CASE b = 32 -> " "
      [] b = 37 -> "%"
      [] b = 59 -> ";"
      [] b = 61 -> "="
      [] OTHER -> "?"

\* every decoded code point above 127 is one placeholder character
NonAscii == "U+"

\* s starts with a %XX escape
IsEscape(s) == Len(s) >= 3 /\ s[1] = "%" /\ IsHex(s[2]) /\ IsHex(s[3])
EscapeByte(s) == 16 * HexVal(s[2]) + HexVal(s[3])

\* continuation bytes that follow a UTF-8 lead byte; -1 for an invalid lead
Continuations(b) ==
    CASE b < 128 -> 0
      [] b >= 194 /\ b <= 223 -> 1
      [] b >= 224 /\ b <= 239 -> 2
      [] b >= 240 /\ b <= 244 -> 3
      [] OTHER -> -1

\* s starts with n escapes %80..%BF
RECURSIVE HasContinuations(_, _)
HasContinuations(s, n) ==
    IF n = 0 THEN TRUE
    ELSE /\ IsEscape(s)
         /\ EscapeByte(s) >= 128 /\ EscapeByte(s) <= 191
         /\ HasContinuations(SliceFrom(s, 3), n - 1)

\* decodeURIComponent(s): [threw |-> TRUE] stands for the URIError
RECURSIVE decodeURIComponent(_)
decodeURIComponent(s) ==
    IF s = <<>> THEN [threw |-> FALSE, value |-> <<>>]
    ELSE IF Head(s) # "%"
    THEN LET rest == decodeURIComponent(Tail(s))
         IN  IF rest.threw THEN rest
             ELSE [threw |-> FALSE, value |-> <<Head(s)>> \o rest.value]
    ELSE IF ~IsEscape(s) THEN [threw |-> TRUE, value |-> <<>>]
    ELSE LET b == EscapeByte(s)
             n == Continuations(b)
         IN  IF n < 0 \/ ~HasContinuations(SliceFrom(s, 3), n)
             THEN [threw |-> TRUE, value |-> <<>>]
             ELSE LET rest == decodeURIComponent(SliceFrom(s, 3 * (n + 1)))
                  IN  IF rest.threw THEN rest
                      ELSE [threw |-> FALSE,
                            value |-> <<IF n = 0 THEN AsciiChar(b) ELSE NonAscii>> \o rest.value]

\* String(undefined), what decodeURIComponent makes of a missing argument
UndefinedString == <<"u", "n", "d", "e", "f", "i", "n", "e", "d">>

(***************************************************************************)
(* The values document.cookie takes in the model.                          *)
(***************************************************************************)
CookieAbsent == <<>>
CookiePlain == REQUEST_ID_COOKIE_NAME \o <<"=", "a", "b", "c">>
CookieOther == <<"t", "=", "1", ";", " ">> \o REQUEST_ID_COOKIE_NAME \o <<"=", "x", "y">>
CookieEmpty == REQUEST_ID_COOKIE_NAME \o <<"=">>
CookieMalformed == REQUEST_ID_COOKIE_NAME \o <<"=", "%", "E", "0", "%", "A", "4", "%", "A">>
CookieEscaped == REQUEST_ID_COOKIE_NAME \o <<"=", "a", "%", "2", "0", "b">>
CookieEquals == REQUEST_ID_COOKIE_NAME \o <<"=", "a", "=", "b">>
CookieBare == REQUEST_ID_COOKIE_NAME
Cookies == {CookieAbsent, CookiePlain, CookieOther, CookieEmpty, CookieMalformed,
            CookieEscaped, CookieEquals, CookieBare}
\* the carrier cookies the queue specification starts under
QueueCookies == {CookieAbsent, CookiePlain, CookieMalformed}
\* the carrier cookies the correlation specification starts under
CorrCookies == {CookieAbsent, CookiePlain}

(***************************************************************************)
(* State.                                                                  *)
(***************************************************************************)
VARIABLES
    isBrowser,               \* typeof window !== 'undefined' (and document exists)
    hasRandomUUID,           \* typeof crypto !== 'undefined' && crypto.randomUUID
    hasSendBeacon,           \* navigator.sendBeacon
    isDevelopment,           \* process.env.NODE_ENV === 'development'
    basePath,                \* the base path the application is served under
    consoleLayers,           \* adapters a call of a console entry point passes through
    installs,                \* history: calls of patchConsoleForStructuredLogging
    envLogLevel,             \* <<NEXT_PUBLIC_LOG_LEVEL, REACT_APP_LOG_LEVEL>>, "" when unset
    callerLevels,            \* the facade methods the callers of this run use
    callerKeys,              \* the sets of context keys the callers of this run pass
    level,                   \* pinoLogger.level
    cookie,                  \* document.cookie
    clientSessionRequestId,  \* <<>> is null
    uuidCount,               \* identifiers crypto.randomUUID() has returned
    logShipper,              \* the singleton ClientLogShipper exists
    endpoint,                \* ClientLogShipper.endpoint, <<>> while there is no shipper
    listeners,               \* handlers registered per unload signal
    logQueue,                \* ClientLogShipper.logQueue
    flushTimer,              \* <<>> is null, <<ms>> a pending timer set ms ago
    timers,                  \* timeouts of addLog the runtime holds: set, not yet
                             \* fired and not cleared
    sinceFirstAdd,           \* history: ms since the first add after the last flush
    added,                   \* history: events pushed so far
    shipped,                 \* history: ids of the events of all batches, in flush order
    lastAttempt,             \* history: the last batch taken and what became of it
    lastOp,                  \* history: the last operation and what it did
    twin,                    \* <<>>, or <<s>>: the state of a second run given the same
                             \* calls in the same environment in the other runtime mode
    logsLeft, cookieSetsLeft, badLeft, levelSetsLeft   \* budgets of the run

vars == <<isBrowser, hasRandomUUID, hasSendBeacon, isDevelopment, basePath, envLogLevel,
          callerLevels, callerKeys, consoleLayers, installs, level, cookie, clientSessionRequestId,
          uuidCount, logShipper, endpoint, listeners, logQueue, flushTimer, timers,
          sinceFirstAdd, added, shipped, lastAttempt, lastOp, twin, logsLeft, cookieSetsLeft, badLeft,
          levelSetsLeft>>

\* the runtime the program finds and the callers it has
host == <<isBrowser, hasRandomUUID, hasSendBeacon, isDevelopment, basePath, envLogLevel,
          callerLevels, callerKeys>>

env == <<host, consoleLayers, installs>>

\* the n-th value of crypto.randomUUID(): non-empty, distinct for distinct n
UUID(n) == [i \in 1..n |-> "uuid"]

\* type LogLevel, in the order of pino.levels.values
LevelOrder == <<"debug", "info", "warn", "error">>
LogLevels == {LevelOrder[i] : i \in 1..Len(LevelOrder)}
LevelValue(l) == CHOOSE i \in 1..Len(LevelOrder) : LevelOrder[i] = l

\* the keys of the objects of the write hook: the schema fields, the
\* correlation key of the hook, and one key that is nobody's but the caller's
Keys == {"level", "message", "timestamp", "service", "request_id", "requestId", "userId"}
\* the keys a caller may pass in a context
ContextKeys == {"level", "message", "timestamp", "service", "requestId", "userId"}
\* a key the object does not have
Undefined(k) == IF k = "requestId" THEN <<>> ELSE ""
\* the value a caller passes under a key; it is no level label
CallerValue(k) == IF k = "requestId" THEN <<"c", "a", "l", "l", "e", "r">> ELSE "caller"
EmptyObject == [k \in Keys |-> Undefined(k)]
\* the context argument of a facade call that passes these keys
CallerContext(keys) == [k \in Keys |-> IF k \in keys THEN CallerValue(k) ELSE Undefined(k)]
\* { ...a, ...b }
Spread(a, b) == [k \in Keys |-> IF b[k] # Undefined(k) THEN b[k] ELSE a[k]]

\* an attempt: the batch taken, how the delivery code left (outcome), the
\* identifier in the payload and in the X-Request-ID header, the calls made to
\* a transport primitive, the url they were made to, and what the transport
\* made of the request (net)
Attempt(batch, outcome, requestId, header, calls) ==
    [batch |-> batch, outcome |-> outcome, requestId |-> requestId, header |-> header,
     calls |-> calls, url |-> <<>>, net |-> IF calls > 0 THEN "pending" ELSE "none"]

\* navigator.sendBeacon(this.endpoint, blob) or fetch(this.endpoint, {...})
Request(s, batch, primitive, requestId, header) ==
    [Attempt(batch, primitive, requestId, header, 1) EXCEPT !.url = s.endpoint]

NoAttempt == Attempt(<<>>, "none", <<>>, <<>>, 0)
NoOp(kind) == [kind |-> kind, attempts |-> 0, rejected |-> FALSE, threw |-> FALSE,
               enqueued |-> FALSE, warned |-> FALSE, requestId |-> <<>>,
               lvl |-> "", keys |-> {}, emitted |-> FALSE, consoleLines |-> 0,
               record |-> EmptyObject, adapters |-> 0, forceFlushCalls |-> 0]

\* the state of a run at the start of an operation: what the operation did
\* (attempts, rejected, threw, enqueued, warned, ret, lvl, keys, emitted,
\* consoleLines, record, adapters, fired, forceFlushCalls) is counted from
\* there
Fresh(s) ==
    [s EXCEPT !.attempts = 0, !.rejected = FALSE, !.threw = FALSE, !.enqueued = FALSE,
              !.warned = FALSE, !.ret = <<>>, !.lvl = "", !.keys = {}, !.emitted = FALSE,
              !.consoleLines = 0, !.record = EmptyObject, !.adapters = 0,
              !.fired = FALSE, !.forceFlushCalls = 0]

\* the mutable state an operation works on, with the runtime mode of the run
Cur == [isDevelopment |-> isDevelopment, level |-> level,
        clientSessionRequestId |-> clientSessionRequestId, uuidCount |-> uuidCount,
        logShipper |-> logShipper, endpoint |-> endpoint, listeners |-> listeners,
        logQueue |-> logQueue,
        flushTimer |-> flushTimer, timers |-> timers,
        sinceFirstAdd |-> sinceFirstAdd, added |-> added,
        shipped |-> shipped, lastAttempt |-> lastAttempt,
        attempts |-> 0, rejected |-> FALSE, threw |-> FALSE, enqueued |-> FALSE,
        warned |-> FALSE, ret |-> <<>>, lvl |-> "", keys |-> {}, emitted |-> FALSE,
        consoleLines |-> 0, record |-> EmptyObject, adapters |-> 0, fired |-> FALSE,
        forceFlushCalls |-> 0]

Commit(t, kind) ==
    /\ level' = t.level
    /\ clientSessionRequestId' = t.clientSessionRequestId
    /\ uuidCount' = t.uuidCount
    /\ logShipper' = t.logShipper
    /\ endpoint' = t.endpoint
    /\ listeners' = t.listeners
    /\ logQueue' = t.logQueue
    /\ flushTimer' = t.flushTimer
    /\ timers' = t.timers
    /\ sinceFirstAdd' = t.sinceFirstAdd
    /\ added' = t.added
    /\ shipped' = t.shipped
    /\ lastAttempt' = t.lastAttempt
    /\ lastOp' = [kind |-> kind, attempts |-> t.attempts, rejected |-> t.rejected,
                  threw |-> t.threw, enqueued |-> t.enqueued, warned |-> t.warned,
                  requestId |-> t.ret, lvl |-> t.lvl, keys |-> t.keys,
                  emitted |-> t.emitted,
                  consoleLines |-> t.consoleLines, record |-> t.record,
                  adapters |-> t.adapters, forceFlushCalls |-> t.forceFlushCalls]

(***************************************************************************)
(* utils/requestId.ts                                                      *)
(***************************************************************************)
\* the for loop of getRequestId over the pieces of document.cookie
RECURSIVE ScanCookies(_, _)
ScanCookies(cookies, cookieName) ==
    IF cookies = <<>> THEN <<>>
    ELSE LET trimmed == Trim(Head(cookies))
             eq == IndexOf(trimmed, "=")
             name == Trim(SliceTo(trimmed, eq))
             value == Trim(SliceFrom(trimmed, eq + 1))
         IN  IF trimmed = <<>> \/ eq < 0 THEN ScanCookies(Tail(cookies), cookieName)
             ELSE IF name = cookieName /\ value # <<>>
             THEN LET d == decodeURIComponent(value)
                  IN  IF d.threw THEN value ELSE d.value
             ELSE ScanCookies(Tail(cookies), cookieName)

getRequestId(cookieName) ==
    IF ~isBrowser THEN <<>>
    ELSE ScanCookies(Split(cookie, ";"), cookieName)

(***************************************************************************)
(* utils/logger.ts                                                         *)
(***************************************************************************)
\* variant: a cached session identifier is preferred to the carrier
getClientRequestIdForLogCached(s) ==
    IF ~isBrowser THEN [s EXCEPT !.ret = <<>>]
    ELSE IF s.clientSessionRequestId # <<>> THEN [s EXCEPT !.ret = s.clientSessionRequestId]
    ELSE LET fromCookie == getRequestId(REQUEST_ID_COOKIE_NAME)
         IN  IF fromCookie # <<>> THEN [s EXCEPT !.ret = fromCookie]
             ELSE LET t == IF hasRandomUUID
                           THEN [s EXCEPT !.clientSessionRequestId = UUID(s.uuidCount + 1),
                                          !.uuidCount = @ + 1]
                           ELSE s
                  IN  [t EXCEPT !.ret = t.clientSessionRequestId]

getClientRequestIdForLog(s) ==
    IF ~isBrowser THEN [s EXCEPT !.ret = <<>>]
    ELSE LET fromCookie == getRequestId(REQUEST_ID_COOKIE_NAME)
         IN  IF fromCookie # <<>> THEN [s EXCEPT !.ret = fromCookie]
             ELSE LET t == IF s.clientSessionRequestId = <<>> /\ hasRandomUUID
                           THEN [s EXCEPT !.clientSessionRequestId = UUID(s.uuidCount + 1),
                                          !.uuidCount = @ + 1]
                           ELSE s
                  IN  [t EXCEPT !.ret = t.clientSessionRequestId]

\* the for loop of ClientLogShipper.getRequestIdFromCookie
RECURSIVE ScanCookiesShipper(_)
ScanCookiesShipper(cookies) ==
    IF cookies = <<>> THEN [threw |-> FALSE, isNull |-> TRUE, value |-> <<>>]
    ELSE LET parts == Split(Trim(Head(cookies)), "=")
             name == parts[1]
         IN  IF name = REQUEST_ID_COOKIE_NAME
             THEN LET d == IF Len(parts) >= 2 THEN decodeURIComponent(parts[2])
                           ELSE [threw |-> FALSE, value |-> UndefinedString]
                  IN  [threw |-> d.threw, isNull |-> FALSE, value |-> d.value]
             ELSE ScanCookiesShipper(Tail(cookies))

getRequestIdFromCookie ==
    IF ~isBrowser THEN [threw |-> FALSE, isNull |-> TRUE, value |-> <<>>]
    ELSE ScanCookiesShipper(Split(cookie, ";"))

Ids(q) == [i \in 1..Len(q) |-> q[i].id]

\* variant: the catch block puts the batch back in the buffer
DeliverRestore(s, batch, requestId) ==
    IF \E i \in 1..Len(batch) : ~batch[i].serializable
    THEN [s EXCEPT !.lastAttempt = Attempt(batch, "serializeError", <<>>, <<>>, 0),
                   !.warned = s.isDevelopment,
                   !.logQueue = batch \o @]
    ELSE IF hasSendBeacon
    THEN [s EXCEPT !.lastAttempt = Request(s, batch, "beacon", requestId, <<>>)]
    ELSE [s EXCEPT !.lastAttempt = Request(s, batch, "fetch", requestId, requestId)]

\* variant: a development build hands nothing to the transport
DeliverProductionOnly(s, batch, requestId) ==
    IF \E i \in 1..Len(batch) : ~batch[i].serializable
    THEN [s EXCEPT !.lastAttempt = Attempt(batch, "serializeError", <<>>, <<>>, 0),
                   !.warned = s.isDevelopment]
    ELSE IF s.isDevelopment
    THEN [s EXCEPT !.lastAttempt = Attempt(batch, "skipped", requestId, <<>>, 0)]
    ELSE IF hasSendBeacon
    THEN [s EXCEPT !.lastAttempt = Request(s, batch, "beacon", requestId, <<>>)]
    ELSE [s EXCEPT !.lastAttempt = Request(s, batch, "fetch", requestId, requestId)]

\* variant: the header carries the session identifier, the body the resolved one
DeliverHeaderSession(s, batch, requestId) ==
    IF \E i \in 1..Len(batch) : ~batch[i].serializable
    THEN [s EXCEPT !.lastAttempt = Attempt(batch, "serializeError", <<>>, <<>>, 0),
                   !.warned = s.isDevelopment]
    ELSE IF hasSendBeacon
    THEN [s EXCEPT !.lastAttempt = Request(s, batch, "beacon", requestId, <<>>)]
    ELSE [s EXCEPT !.lastAttempt = Request(s, batch, "fetch", requestId,
                                           s.clientSessionRequestId)]

\* the try block of flush: build the payload and hand it to one primitive;
\* the catch block warns in development and drops the batch
Deliver(s, batch, requestId) ==
    IF \E i \in 1..Len(batch) : ~batch[i].serializable
    THEN [s EXCEPT !.lastAttempt = Attempt(batch, "serializeError", <<>>, <<>>, 0),
                   !.warned = s.isDevelopment]
    ELSE IF hasSendBeacon
    THEN [s EXCEPT !.lastAttempt = Request(s, batch, "beacon", requestId, <<>>)]
    ELSE [s EXCEPT !.lastAttempt = Request(s, batch, "fetch", requestId, requestId)]

\* the part of flush after the batch is taken
FlushBatch(s, batch) ==
    LET fromCookie == getRequestIdFromCookie
    IN  IF fromCookie.threw
        THEN [s EXCEPT !.rejected = TRUE,
                       !.lastAttempt = Attempt(batch, "rejected", <<>>, <<>>, 0)]
        ELSE LET r1 == IF fromCookie.value # <<>>
                       THEN [s EXCEPT !.ret = fromCookie.value]
                       ELSE getClientRequestIdForLog(s)
                 r2 == IF r1.ret = <<>> /\ hasRandomUUID
                       THEN [r1 EXCEPT !.ret = UUID(r1.uuidCount + 1),
                                       !.uuidCount = @ + 1]
                       ELSE r1
             IN  Deliver(r2, batch, r2.ret)

\* clearTimeout(this.flushTimer): the runtime drops the timeout, unless flush
\* runs as its callback (fired) and it is gone already
clearTimeout(s) ==
    [s EXCEPT !.timers = IF s.fired THEN @ ELSE @ - 1]

\* variant: the field is reset and the timeout is left with the runtime
ClearTimerFieldOnly(s) ==
    [s EXCEPT !.flushTimer = <<>>]

\* if (this.flushTimer) { clearTimeout(this.flushTimer); this.flushTimer = null }
ClearTimer(s) ==
    IF s.flushTimer = <<>> THEN s
    ELSE [clearTimeout(s) EXCEPT !.flushTimer = <<>>]

\* variant: the buffer is not reset when the batch is taken
flushKeepsQueue(s) ==
    IF Len(s.logQueue) = 0 THEN s
    ELSE FlushBatch([ClearTimer(s) EXCEPT !.sinceFirstAdd = <<>>,
                              !.shipped = @ \o Ids(s.logQueue), !.attempts = @ + 1],
                    s.logQueue)

\* variant: the pending timer is not cleared
flushKeepsTimer(s) ==
    IF Len(s.logQueue) = 0 THEN s
    ELSE FlushBatch([s EXCEPT !.logQueue = <<>>, !.sinceFirstAdd = <<>>,
                              !.shipped = @ \o Ids(s.logQueue), !.attempts = @ + 1],
                    s.logQueue)

\* variant: no early return on an empty buffer
flushNoEmptyCheck(s) ==
    FlushBatch([ClearTimer(s) EXCEPT !.logQueue = <<>>, !.sinceFirstAdd = <<>>,
                         !.shipped = @ \o Ids(s.logQueue), !.attempts = @ + 1],
               s.logQueue)

flush(s) ==
    IF Len(s.logQueue) = 0 THEN s
    ELSE FlushBatch([ClearTimer(s) EXCEPT !.logQueue = <<>>, !.sinceFirstAdd = <<>>,
                              !.shipped = @ \o Ids(s.logQueue), !.attempts = @ + 1],
                    s.logQueue)

\* this.flushTimer = setTimeout(() => this.flush(), FLUSH_INTERVAL_MS)
setTimeout(s) ==
    [s EXCEPT !.flushTimer = <<0>>, !.timers = @ + 1]

\* the callback of the timeout: the runtime has dropped the timeout that fires
timerCallback(s) ==
    flush([s EXCEPT !.timers = @ - 1, !.fired = TRUE])

\* what addLog does before it looks at the triggers
Push(s, event) ==
    [s EXCEPT !.logQueue = Append(@, event),
              !.added = @ + 1,
              !.enqueued = TRUE,
              !.sinceFirstAdd = IF s.logQueue = <<>> THEN <<0>> ELSE @]

\* variant: no size trigger, the timer alone flushes
addLogTimerOnly(s, event) ==
    LET pushed == Push(s, event)
    IN  IF pushed.flushTimer = <<>> THEN setTimeout(pushed)
        ELSE pushed

\* variant: no timer is scheduled
addLogNoTimer(s, event) ==
    LET pushed == Push(s, event)
    IN  IF Len(pushed.logQueue) >= BATCH_SIZE THEN flush(pushed)
        ELSE pushed

\* variant: the size trigger compares with > instead of >=
addLogOffByOne(s, event) ==
    LET pushed == Push(s, event)
    IN  IF Len(pushed.logQueue) > BATCH_SIZE THEN flush(pushed)
        ELSE IF pushed.flushTimer = <<>> THEN setTimeout(pushed)
        ELSE pushed

\* variant: every add restarts the timer
addLogDebounce(s, event) ==
    LET pushed == Push(s, event)
    IN  IF Len(pushed.logQueue) >= BATCH_SIZE THEN flush(pushed)
        ELSE setTimeout(pushed)

\* variant: the size trigger fires one event early
addLogEager(s, event) ==
    LET pushed == Push(s, event)
    IN  IF Len(pushed.logQueue) >= BATCH_SIZE - 1 THEN flush(pushed)
        ELSE IF pushed.flushTimer = <<>> THEN setTimeout(pushed)
        ELSE pushed

addLog(s, event) ==
    LET pushed == Push(s, event)
    IN  IF Len(pushed.logQueue) >= BATCH_SIZE THEN flush(pushed)
        ELSE IF pushed.flushTimer = <<>> THEN setTimeout(pushed)
        ELSE pushed

forceFlush(s) ==
    IF Len(s.logQueue) > 0 THEN flush(s) ELSE s

\* the listener of beforeunload and of pagehide: logShipper?.forceFlush()
unloadListener(s) ==
    forceFlush([s EXCEPT !.forceFlushCalls = @ + 1])

\* the runtime dispatches an unload signal to the n listeners registered for
\* it, one after the other
RECURSIVE dispatchEvent(_, _)
dispatchEvent(s, n) ==
    IF n = 0 THEN s ELSE dispatchEvent(unloadListener(s), n - 1)

\* variant: the handler of a rejected fetch puts the batch back for a retry
fetchCatchRequeue(s) ==
    [s EXCEPT !.warned = s.isDevelopment,
              !.logQueue = s.lastAttempt.batch \o @,
              !.lastAttempt.net = "failed"]

\* the .catch handler of the fetch promise: a warning in development
fetchCatch(s) ==
    [s EXCEPT !.warned = s.isDevelopment, !.lastAttempt.net = "failed"]

\* the transport answers the request of the last attempt: sendBeacon's boolean,
\* which flush does not read, or the settling of the fetch promise, whose
\* response flush does not read either
transportResult(s, ok) ==
    IF ok THEN [s EXCEPT !.lastAttempt.net = "ok"]
    ELSE IF s.lastAttempt.outcome = "fetch" THEN fetchCatch(s)
    ELSE [s EXCEPT !.lastAttempt.net = "failed"]

\* ./paths: the path under the base path the application is served under,
\* which is fixed for the run
apiUrl(path) == <<basePath, path>>

\* null is <<>>
getLogShippingEndpoint ==
    IF ~isBrowser THEN <<>> ELSE apiUrl("/api/logs")

\* variant: the shipper posts to the canonical path whatever it is given
ClientLogShipperCanonical(s, ep) ==
    [s EXCEPT !.logShipper = TRUE, !.endpoint = <<"", "/api/logs">>]

\* new ClientLogShipper(endpoint)
ClientLogShipper(s, ep) ==
    [s EXCEPT !.logShipper = TRUE, !.endpoint = ep]

\* variant: the listeners are registered on every call
getLogShipperRegisters(s) ==
    IF ~isBrowser THEN s
    ELSE IF getLogShippingEndpoint = <<>> THEN s
    ELSE [ClientLogShipper(s, getLogShippingEndpoint) EXCEPT !.listeners = @ + 1]

\* the one shipper of the module, constructed by the first call that finds
\* an endpoint
getLogShipper(s) ==
    IF ~isBrowser THEN s
    ELSE IF getLogShippingEndpoint = <<>> THEN s
    ELSE IF ~s.logShipper
    THEN [ClientLogShipper(s, getLogShippingEndpoint) EXCEPT !.listeners = @ + 1]
    ELSE s

\* Get log level from environment variables
getLogLevel(nextLogLevel, reactLogLevel, isDev) ==
    IF nextLogLevel # "" /\ nextLogLevel \in LogLevels THEN nextLogLevel
    ELSE IF reactLogLevel # "" /\ reactLogLevel \in LogLevels THEN reactLogLevel
    ELSE IF isDev THEN "debug" ELSE "info"

\* the write hook pino calls in the browser with the object it built for a
\* call of method lvl with the context keys: { level }, then the keys of the
\* context assigned over it, then msg. serializable tells whether
\* JSON.stringify accepts the caller's context
write(s, lvl, keys, serializable) ==
    LET logEntry == Spread([EmptyObject EXCEPT !["level"] = lvl], CallerContext(keys))
        levelNum == logEntry["level"]
        context == [logEntry EXCEPT !["level"] = Undefined("level")]
        levelLabel == IF levelNum \in LogLevels THEN levelNum ELSE "info"
        r == getClientRequestIdForLog(s)
        requestId == r.ret
        contextWithRequestId == [context EXCEPT !["requestId"] = requestId]
        g == getLogShipper(r)
        a == IF g.logShipper
             THEN addLog(g, [id |-> g.added + 1, level |-> levelLabel,
                             requestId |-> contextWithRequestId["requestId"],
                             serializable |-> serializable,
                             resolved |-> getLogShippingEndpoint,
                             cookie |-> cookie])
             ELSE g
        logObj == Spread([EmptyObject EXCEPT !["level"] = levelLabel,
                                            !["message"] = "msg",
                                            !["timestamp"] = "now"],
                         contextWithRequestId)
    IN  IF serializable
        THEN [a EXCEPT !.ret = requestId, !.emitted = TRUE, !.consoleLines = @ + 1,
                       !.record = logObj]
        ELSE [a EXCEPT !.ret = requestId, !.emitted = TRUE, !.threw = TRUE]

\* LoggerWrapper.debug/info/warn/error: pino drops a call below its level,
\* calls write in the browser and on the server prints one JSON line itself:
\* the level, the keys of the context, and last the message under messageKey;
\* nothing on the way catches
LoggerWrapperLog(s0, lvl, keys, serializable) ==
    LET s == [s0 EXCEPT !.lvl = lvl, !.keys = keys]
    IN  IF LevelValue(lvl) < LevelValue(s.level) THEN s
        ELSE IF isBrowser THEN write(s, lvl, keys, serializable)
        ELSE
         [s EXCEPT !.emitted = TRUE, !.consoleLines = @ + 1,
                   !.record = Spread(Spread([EmptyObject EXCEPT !["level"] = lvl],
                                            CallerContext(keys)),
                                     [EmptyObject EXCEPT !["message"] = "msg"])]

\* variant: raising the level drops the buffered events below it
setLevelPurges(s, lvl) ==
    [s EXCEPT !.level = lvl,
              !.logQueue = SelectSeq(@, LAMBDA e : LevelValue(e.level) >= LevelValue(lvl))]

setLevel(s, lvl) ==
    [s EXCEPT !.level = lvl]

\* the entry points of console that patchConsoleForStructuredLogging assigns
ConsoleMethods == {"log", "info", "warn", "error", "debug"}

\* the function assigned to console[m]: serializeArgs builds the message and
\* a context of service and an empty request_id, and the facade method of
\* the entry point is called; the function it replaces is never called
consoleAdapter(s, m) ==
    LoggerWrapperLog([s EXCEPT !.adapters = @ + 1], IF m = "log" THEN "info" ELSE m,
                     {"service"}, TRUE)

\* a call of console[m] when the entry point is a stack of adapters, the
\* outer calling the inner; the innermost does not call the console of the
\* runtime
RECURSIVE throughAdapters(_, _, _)
throughAdapters(s, m, layers) ==
    IF layers = 0 THEN s
    ELSE throughAdapters(consoleAdapter(s, m), m, layers - 1)

\* a call of console[m]: the console of the runtime prints the line itself
\* when no adapter is installed
consoleCall(s, m, layers) ==
    IF layers = 0 THEN [s EXCEPT !.consoleLines = @ + 1]
    ELSE throughAdapters(s, m, layers)

\* variant: each adapter wraps the entry point it finds
patchConsoleWraps(layers) ==
    IF isBrowser THEN layers ELSE layers + 1

\* the adapters behind each entry point after an installation over layers
\* of them: the assignment replaces whatever the entry point was
patchConsoleForStructuredLogging(layers) ==
    IF isBrowser THEN layers ELSE 1

(***************************************************************************)
(* Operations.                                                             *)
(***************************************************************************)
\* the second run at the start of an operation
TwinCur == IF twin = <<>> THEN Cur ELSE Fresh(twin[1])

\* the second run takes the step the first run takes and is left in state t
TwinStep(t) ==
    twin' = IF twin = <<>> THEN <<>> ELSE <<t>>

\* both runs take the step: the first is left in ts[1], the second in ts[2]
CommitBoth(ts, kind) ==
    /\ Commit(ts[1], kind)
    /\ TwinStep(ts[2])

LogCall ==
    /\ logsLeft > 0
    /\ \E lvl \in callerLevels, keys \in callerKeys, serializable \in BOOLEAN :
        /\ ~serializable => badLeft > 0
        /\ badLeft' = IF serializable THEN badLeft ELSE badLeft - 1
        /\ Commit(LoggerWrapperLog(Cur, lvl, keys, serializable), "log")
        /\ TwinStep(LoggerWrapperLog(TwinCur, lvl, keys, serializable))
    /\ logsLeft' = logsLeft - 1
    /\ UNCHANGED <<env, cookie, cookieSetsLeft, levelSetsLeft>>

\* LoggerWrapper.setLevel
SetLevel ==
    /\ levelSetsLeft > 0
    /\ \E lvl \in LogLevels \ {level} :
        /\ Commit(setLevel(Cur, lvl), "setLevel")
        /\ TwinStep(setLevel(TwinCur, lvl))
    /\ levelSetsLeft' = levelSetsLeft - 1
    /\ UNCHANGED <<env, cookie, logsLeft, cookieSetsLeft, badLeft>>

\* the clock advances while a timer is pending and not yet due
Tick ==
    /\ flushTimer # <<>>
    /\ flushTimer[1] < FLUSH_INTERVAL_MS
    /\ flushTimer' = <<Min(flushTimer[1] + TickMs, FLUSH_INTERVAL_MS)>>
    /\ sinceFirstAdd' = IF sinceFirstAdd = <<>> THEN <<>>
                        ELSE <<Min(sinceFirstAdd[1] + TickMs, FLUSH_INTERVAL_MS)>>
    /\ lastOp' = NoOp("tick")
    /\ TwinStep(IF TwinCur.flushTimer = <<>> THEN TwinCur
                ELSE [TwinCur EXCEPT
                        !.flushTimer = <<Min(@[1] + TickMs, FLUSH_INTERVAL_MS)>>,
                        !.sinceFirstAdd = <<Min(@[1] + TickMs, FLUSH_INTERVAL_MS)>>])
    /\ UNCHANGED <<env, cookie, level, clientSessionRequestId, uuidCount, logShipper,
                   endpoint, listeners, logQueue, timers, added, shipped, lastAttempt, logsLeft,
                   cookieSetsLeft, badLeft, levelSetsLeft>>

\* the setTimeout callback of addLog
TimerFire ==
    /\ flushTimer # <<>>
    /\ flushTimer[1] >= FLUSH_INTERVAL_MS
    /\ Commit(timerCallback(Cur), "timer")
    /\ TwinStep(IF TwinCur.flushTimer = <<FLUSH_INTERVAL_MS>> THEN timerCallback(TwinCur)
                ELSE TwinCur)
    /\ UNCHANGED <<env, cookie, logsLeft, cookieSetsLeft, badLeft, levelSetsLeft>>

\* the listeners getLogShipper registers
BeforeUnload ==
    /\ listeners > 0
    /\ Commit(dispatchEvent(Cur, listeners), "forceFlush")
    /\ TwinStep(dispatchEvent(TwinCur, TwinCur.listeners))
    /\ UNCHANGED <<env, cookie, logsLeft, cookieSetsLeft, badLeft, levelSetsLeft>>

PageHide ==
    /\ listeners > 0
    /\ Commit(dispatchEvent(Cur, listeners), "forceFlush")
    /\ TwinStep(dispatchEvent(TwinCur, TwinCur.listeners))
    /\ UNCHANGED <<env, cookie, logsLeft, cookieSetsLeft, badLeft, levelSetsLeft>>

\* sendBeacon returns, or the fetch promise settles
Settle ==
    /\ lastAttempt.net = "pending"
    /\ \E ok \in BOOLEAN :
        /\ Commit(transportResult(Cur, ok), "settle")
        /\ TwinStep(IF TwinCur.lastAttempt.net = "pending"
                    THEN transportResult(TwinCur, ok) ELSE TwinCur)
    /\ UNCHANGED <<env, cookie, logsLeft, cookieSetsLeft, badLeft, levelSetsLeft>>

\* an upstream component sets, refreshes or removes the carrier cookie
SetCookie ==
    /\ isBrowser
    /\ cookieSetsLeft > 0
    /\ \E c \in Cookies \ {cookie} : cookie' = c
    /\ cookieSetsLeft' = cookieSetsLeft - 1
    /\ lastOp' = NoOp("setCookie")
    /\ TwinStep(TwinCur)
    /\ UNCHANGED <<env, level, clientSessionRequestId, uuidCount, logShipper, endpoint,
                   listeners,
                   logQueue, flushTimer, timers, sinceFirstAdd, added, shipped,
                   lastAttempt, logsLeft, badLeft, levelSetsLeft>>

\* instrumentation code installs the console adapters
PatchConsole ==
    /\ installs < MaxPatches
    /\ consoleLayers' = patchConsoleForStructuredLogging(consoleLayers)
    /\ installs' = installs + 1
    /\ lastOp' = NoOp("patchConsole")
    /\ TwinStep(TwinCur)
    /\ UNCHANGED <<host, cookie, level, clientSessionRequestId, uuidCount, logShipper,
                   endpoint, listeners, logQueue, flushTimer, timers, sinceFirstAdd, added,
                   shipped, lastAttempt, logsLeft, cookieSetsLeft, badLeft,
                   levelSetsLeft>>

\* framework code calls an entry point of console
ConsoleCall ==
    /\ logsLeft > 0
    /\ \E m \in ConsoleMethods :
        /\ CommitBoth([run \in {1, 2} |->
                          consoleCall(IF run = 1 THEN Cur ELSE TwinCur, m, consoleLayers)],
                      "console")
    /\ logsLeft' = logsLeft - 1
    /\ UNCHANGED <<env, cookie, cookieSetsLeft, badLeft, levelSetsLeft>>

\* variant: the shipper is constructed when the module is loaded
InitProgramEager ==
    /\ isBrowser \in BOOLEAN
    /\ hasRandomUUID \in BOOLEAN
    /\ hasSendBeacon \in IF isBrowser THEN BOOLEAN ELSE {FALSE}
    /\ clientSessionRequestId = <<>>
    /\ uuidCount = 0
    /\ logShipper = isBrowser
    /\ endpoint = getLogShippingEndpoint
    /\ listeners = IF isBrowser THEN 1 ELSE 0
    /\ logQueue = <<>>
    /\ flushTimer = <<>>
    /\ timers = 0
    /\ sinceFirstAdd = <<>>
    /\ added = 0
    /\ shipped = <<>>
    /\ lastAttempt = NoAttempt
    /\ lastOp = NoOp("init")
    /\ level = getLogLevel(envLogLevel[1], envLogLevel[2], isDevelopment)
    /\ consoleLayers = 0
    /\ installs = 0

InitProgram ==
    /\ isBrowser \in BOOLEAN
    /\ hasRandomUUID \in BOOLEAN
    /\ hasSendBeacon \in IF isBrowser THEN BOOLEAN ELSE {FALSE}
    /\ clientSessionRequestId = <<>>
    /\ uuidCount = 0
    /\ logShipper = FALSE
    /\ endpoint = <<>>
    /\ listeners = 0
    /\ logQueue = <<>>
    /\ flushTimer = <<>>
    /\ timers = 0
    /\ sinceFirstAdd = <<>>
    /\ added = 0
    /\ shipped = <<>>
    /\ lastAttempt = NoAttempt
    /\ lastOp = NoOp("init")
    /\ level = getLogLevel(envLogLevel[1], envLogLevel[2], isDevelopment)
    /\ consoleLayers = 0
    /\ installs = 0

\* callers that log at info with no context, no level override, one run
PlainCallers ==
    /\ envLogLevel = <<"", "">>
    /\ callerLevels = {"info"}
    /\ callerKeys = {{}}
    /\ levelSetsLeft = 0
    /\ twin = <<>>

\* the queue of a production build under a fixed carrier cookie and
\* serializable contexts
Init ==
    /\ isDevelopment = FALSE
    /\ PlainCallers
    /\ basePath = ""
    /\ InitProgram
    /\ cookie \in IF isBrowser THEN QueueCookies ELSE {CookieAbsent}
    /\ badLeft = 0
    /\ logsLeft = MaxLogs
    /\ cookieSetsLeft = 0

Next == LogCall \/ Tick \/ TimerFire \/ BeforeUnload \/ PageHide

Spec == Init /\ [][Next]_vars

\* correlation under a changing carrier cookie
InitCorr ==
    /\ isDevelopment = FALSE
    /\ PlainCallers
    /\ basePath = ""
    /\ InitProgram
    /\ cookie \in IF isBrowser THEN CorrCookies ELSE {CookieAbsent}
    /\ badLeft = 0
    /\ logsLeft = MaxCorrLogs
    /\ cookieSetsLeft = MaxCookieSets

NextCorr == Next \/ SetCookie

SpecCorr == InitCorr /\ [][NextCorr]_vars

\* contexts that JSON.stringify rejects, under a fixed carrier cookie
InitSer ==
    /\ isDevelopment \in BOOLEAN
    /\ PlainCallers
    /\ basePath = ""
    /\ InitProgram
    /\ cookie \in IF isBrowser THEN QueueCookies ELSE {CookieAbsent}
    /\ badLeft = MaxBad
    /\ logsLeft = MaxSerLogs
    /\ cookieSetsLeft = 0

NextNet == Next \/ Settle

SpecSer == InitSer /\ [][NextNet]_vars

\* callers of all four methods and of setLevel with serializable contexts,
\* under each way the environment configures the level
InitLevel ==
    /\ isDevelopment \in BOOLEAN
    /\ envLogLevel \in {<<"", "">>, <<"warn", "">>, <<"verbose", "error">>}
    /\ callerLevels = LogLevels
    /\ callerKeys = {{}}
    /\ levelSetsLeft = MaxLevelSets
    /\ twin = <<>>
    /\ basePath = ""
    /\ InitProgram
    /\ hasRandomUUID
    /\ hasSendBeacon = isBrowser
    /\ cookie = CookieAbsent
    /\ badLeft = 0
    /\ logsLeft = MaxLevelLogs
    /\ cookieSetsLeft = 0

NextLevel == Next \/ SetLevel

SpecLevel == InitLevel /\ [][NextLevel]_vars

\* callers that pass no context, one key, or every key
InitCtx ==
    /\ isDevelopment = FALSE
    /\ envLogLevel = <<"", "">>
    /\ callerLevels = {"info", "error"}
    /\ callerKeys = {{}, ContextKeys} \cup {{k} : k \in ContextKeys}
    /\ levelSetsLeft = 0
    /\ twin = <<>>
    /\ basePath = ""
    /\ InitProgram
    /\ hasSendBeacon = isBrowser
    /\ cookie \in IF isBrowser THEN CorrCookies ELSE {CookieAbsent}
    /\ badLeft = 0
    /\ logsLeft = MaxCtxLogs
    /\ cookieSetsLeft = 0

SpecCtx == InitCtx /\ [][Next]_vars

\* two runs of a browser in the two runtime modes, given the same calls at
\* debug and warn under the same environment
InitMode ==
    /\ isDevelopment \in BOOLEAN
    /\ envLogLevel \in {<<"", "">>, <<"warn", "">>, <<"", "debug">>}
    /\ callerLevels = {"debug", "warn"}
    /\ callerKeys = {{}}
    /\ levelSetsLeft = 0
    /\ basePath = ""
    /\ InitProgram
    /\ isBrowser
    /\ hasRandomUUID
    /\ cookie = CookieAbsent
    /\ badLeft = MaxBad
    /\ logsLeft = MaxModeLogs
    /\ cookieSetsLeft = 0
    /\ twin = <<[Cur EXCEPT !.isDevelopment = ~isDevelopment,
                            !.level = getLogLevel(envLogLevel[1], envLogLevel[2],
                                                  ~isDevelopment)]>>

SpecMode == InitMode /\ [][NextNet]_vars

\* the queue of a browser whose transport accepts or refuses the requests
InitNet ==
    /\ isDevelopment \in BOOLEAN
    /\ PlainCallers
    /\ basePath = ""
    /\ InitProgram
    /\ isBrowser
    /\ hasRandomUUID
    /\ cookie = CookieAbsent
    /\ badLeft = 0
    /\ logsLeft = MaxNetLogs
    /\ cookieSetsLeft = 0

SpecNet == InitNet /\ [][NextNet]_vars

\* a server or a browser whose console is patched up to MaxPatches times
\* while application and framework code log; no unload signal and no timer
InitConsole ==
    /\ isDevelopment \in BOOLEAN
    /\ envLogLevel = <<"", "">>
    /\ callerLevels = {"info", "debug"}
    /\ callerKeys = {{}}
    /\ levelSetsLeft = 0
    /\ twin = <<>>
    /\ basePath = ""
    /\ InitProgram
    /\ hasRandomUUID
    /\ hasSendBeacon = isBrowser
    /\ cookie = CookieAbsent
    /\ badLeft = 0
    /\ logsLeft = MaxConsoleLogs
    /\ cookieSetsLeft = 0

NextConsole == LogCall \/ PatchConsole \/ ConsoleCall

SpecConsole == InitConsole /\ [][NextConsole]_vars

\* a browser served under one of two base paths
InitEndpoint ==
    /\ isDevelopment = FALSE
    /\ PlainCallers
    /\ basePath \in BasePaths
    /\ InitProgram
    /\ isBrowser
    /\ hasRandomUUID
    /\ cookie = CookieAbsent
    /\ badLeft = 0
    /\ logsLeft = MaxEndpointLogs
    /\ cookieSetsLeft = 0

SpecEndpoint == InitEndpoint /\ [][Next]_vars

\* the queue of a page whose clock advances and whose due timeouts run
InitTimer ==
    /\ isDevelopment = FALSE
    /\ PlainCallers
    /\ basePath = ""
    /\ InitProgram
    /\ cookie \in IF isBrowser THEN QueueCookies ELSE {CookieAbsent}
    /\ badLeft = 0
    /\ logsLeft = MaxTimerLogs
    /\ cookieSetsLeft = 0

\* a timeout that is due; TimerFire is enabled exactly then
TimerDue == flushTimer # <<>> /\ flushTimer[1] >= FLUSH_INTERVAL_MS

\* weak fairness of TimerFire, written out: a timeout that stays due runs.
\* The steps of TimerFire are the steps that leave "timer" as the last
\* operation
TimerFairness ==
    \/ []<>(~TimerDue)
    \/ []<><<TimerDue /\ lastOp'.kind = "timer">>_vars

SpecTimer == InitTimer /\ [][Next]_vars /\ WF_vars(Tick) /\ TimerFairness

(***************************************************************************)
(* Properties.                                                             *)
(***************************************************************************)
\* the event the last add pushed
LastEvent ==
    IF logQueue # <<>> THEN logQueue[Len(logQueue)]
    ELSE lastAttempt.batch[Len(lastAttempt.batch)]

\* C1: an add that makes the buffer reach BATCH_SIZE events makes exactly one
\* delivery attempt within that call, whose batch is the buffered events
\* followed by the new one, and leaves the buffer empty.
C1_SizeTriggerFlushesOnce ==
    [][(lastOp'.kind = "log" /\ lastOp'.enqueued /\ Len(logQueue) + 1 = BATCH_SIZE) =>
         /\ lastOp'.attempts = 1
         /\ Len(lastAttempt'.batch) = BATCH_SIZE
         /\ SubSeq(lastAttempt'.batch, 1, Len(logQueue)) = logQueue
         /\ lastAttempt'.batch[BATCH_SIZE].id = added'
         /\ added' = added + 1
         /\ logQueue' = <<>>]_vars

C1_Witness ==
    /\ lastOp.kind = "log"
    /\ lastOp.attempts = 1
    /\ Len(lastAttempt.batch) = BATCH_SIZE
    /\ logQueue = <<>>

\* C2: below BATCH_SIZE events nothing is delivered before the timer fires;
\* the timer is set by the first add after the last flush and its age is the
\* age of that add, later adds leave it alone, it fires no earlier than
\* FLUSH_INTERVAL_MS after that add, and its firing makes exactly one delivery
\* attempt with all buffered events in insertion order.
C2_TimeTrigger ==
    [][/\ (lastOp'.kind = "log" /\ lastOp'.enqueued /\ Len(logQueue) + 1 < BATCH_SIZE) =>
            /\ lastOp'.attempts = 0
            /\ logQueue' = Append(logQueue, LastEvent')
            /\ flushTimer' = IF logQueue = <<>> THEN <<0>> ELSE flushTimer
       /\ lastOp'.kind = "tick" => lastOp'.attempts = 0 /\ logQueue' = logQueue
       /\ lastOp'.kind = "timer" =>
            /\ sinceFirstAdd = <<FLUSH_INTERVAL_MS>>
            /\ lastOp'.attempts = 1
            /\ lastAttempt'.batch = logQueue
            /\ logQueue' = <<>>
       /\ flushTimer' = sinceFirstAdd']_vars

C2_Witness ==
    /\ lastOp.kind = "timer"
    /\ lastOp.attempts = 1
    /\ Len(lastAttempt.batch) = BATCH_SIZE - 1

\* C3: apart from forced flushes, a delivery attempt is made only by an add
\* that brings the buffer to BATCH_SIZE events or by the timer firing no
\* earlier than FLUSH_INTERVAL_MS after the first add since the last flush,
\* and one such step makes at most one attempt.
C3_FlushOnlyOnTrigger ==
    [][lastOp'.kind # "forceFlush" =>
         /\ lastOp'.attempts <= 1
         /\ lastOp'.attempts = 1 =>
              \/ lastOp'.kind = "log" /\ Len(logQueue) + 1 >= BATCH_SIZE
              \/ lastOp'.kind = "timer" /\ sinceFirstAdd = <<FLUSH_INTERVAL_MS>>]_vars

C3_Witness ==
    /\ lastOp.kind = "timer"
    /\ lastOp.attempts = 1
    /\ added > BATCH_SIZE

\* C4: the batches taken so far, in flush order, followed by the buffer are
\* exactly the added events in the order of their adds, so every event is in
\* the buffer or in one batch and never in both or in two batches.
C4_EveryEventOnce ==
    /\ shipped \o Ids(logQueue) = [i \in 1..added |-> i]
    /\ Len(shipped) >= Len(lastAttempt.batch)
    /\ SubSeq(shipped, Len(shipped) - Len(lastAttempt.batch) + 1, Len(shipped))
         = Ids(lastAttempt.batch)

C4_Witness ==
    /\ logQueue # <<>>
    /\ lastAttempt.batch # <<>>
    /\ Len(shipped) > Len(lastAttempt.batch)
    /\ lastOp.kind = "log"

\* C5: a flush of an empty buffer, forced or not, takes no batch, makes no
\* delivery attempt and leaves buffer, timer and earlier batches as they are.
C5_EmptyFlushIsNoOp ==
    /\ []((logShipper /\ Len(logQueue) = 0) => flush(Cur) = Cur /\ forceFlush(Cur) = Cur)
    /\ [][(lastOp'.kind = "forceFlush" /\ Len(logQueue) = 0) =>
            /\ lastOp'.attempts = 0
            /\ UNCHANGED <<logQueue, flushTimer, shipped, lastAttempt>>]_vars

C5_Witness ==
    /\ lastOp.kind = "forceFlush"
    /\ lastOp.attempts = 0
    /\ logShipper
    /\ Len(logQueue) = 0
    /\ shipped # <<>>

\* C6: no public logging call throws to its caller.
C6_LogCallNeverThrows ==
    lastOp.kind = "log" => ~lastOp.threw

\* C7: the promise of a flush, whatever triggered it, never rejects.
C7_FlushNeverRejects ==
    ~lastOp.rejected

\* the first x-request-id cookie does not decode
CarrierMalformed == isBrowser /\ cookie = CookieMalformed

\* C8: under a malformed carrier cookie the log call and the flush resolve the
\* session identifier, as if no carrier were present, and neither throws.
C8_MalformedCarrierIsAbsent ==
    CarrierMalformed =>
        /\ lastOp.kind = "log" => lastOp.requestId = clientSessionRequestId
        /\ ~lastOp.rejected
        /\ (lastOp.attempts = 1 /\ lastAttempt.outcome \in {"beacon", "fetch"}) =>
              lastAttempt.requestId = clientSessionRequestId

\* the carrier value each cookie of the model holds, <<>> when it holds none
CarrierValue ==
    CASE cookie = CookiePlain -> <<"a", "b", "c">>
      [] cookie = CookieOther -> <<"x", "y">>
      [] cookie = CookieEscaped -> <<"a", " ", "b">>
      [] cookie = CookieEquals -> <<"a", "=", "b">>
      [] cookie = CookieMalformed -> <<"%", "E", "0", "%", "A", "4", "%", "A">>
      [] OTHER -> <<>>

\* C9: in a browser without a carrier every log call carries the same
\* non-empty minted identifier, which never changes once it is set.
C9_SessionIdStable ==
    [][/\ (lastOp'.kind = "log" /\ isBrowser /\ CarrierValue = <<>>) =>
            /\ lastOp'.requestId # <<>>
            /\ lastOp'.requestId = clientSessionRequestId'
       /\ clientSessionRequestId # <<>> => clientSessionRequestId' = clientSessionRequestId]_vars

\* C10: a log call made while the carrier holds a value carries that value,
\* whether or not a session identifier was minted before; the carrier value
\* is never cached, so a call made without a carrier carries the session
\* identifier.
C10_CarrierWins ==
    /\ (lastOp.kind = "log" /\ isBrowser /\ CarrierValue # <<>>) =>
          /\ lastOp.requestId = CarrierValue
          /\ lastOp.enqueued /\ LastEvent.requestId = CarrierValue
    /\ (lastOp.kind = "log" /\ isBrowser /\ CarrierValue = <<>>) =>
          /\ lastOp.requestId = clientSessionRequestId
          /\ lastOp.enqueued /\ LastEvent.requestId = clientSessionRequestId
    /\ clientSessionRequestId \in {<<>>} \cup {UUID(n) : n \in 1..uuidCount}

C10_Witness ==
    /\ lastOp.kind = "log"
    /\ cookie = CookiePlain
    /\ clientSessionRequestId # <<>>
    /\ lastOp.requestId = <<"a", "b", "c">>
    /\ LastEvent.requestId = <<"a", "b", "c">>

\* C11: in a browser every log call carries a non-empty correlation
\* identifier, on the record it writes and on the event it enqueues, whatever
\* the runtime offers (with or without crypto.randomUUID, with or without a
\* carrier cookie).
C11_CorrelationNeverEmpty ==
    (lastOp.kind = "log" /\ isBrowser) =>
        /\ lastOp.requestId # <<>>
        /\ lastOp.enqueued => LastEvent.requestId # <<>>

\* the fetch fallback of the last attempt was rejected
FetchRejected ==
    ~hasSendBeacon /\ lastAttempt.outcome = "fetch" /\ lastAttempt.net = "failed"

\* C12: without sendBeacon, the add whose flush calls fetch returns normally;
\* the rejection of that fetch throws nothing, leaves buffer and timer alone
\* and does not bring the batch back; and until the next flush the adds run a
\* normal cycle: the first add starts a timer, later adds leave it alone, the
\* add that brings the buffer to BATCH_SIZE flushes all of it, and so does the
\* timer FLUSH_INTERVAL_MS after the first add.
C12_FetchRejectionIsHarmless ==
    [][/\ (lastOp'.attempts = 1 /\ lastAttempt'.outcome = "fetch") =>
            ~lastOp'.threw /\ ~lastOp'.rejected
       /\ (lastOp'.kind = "settle" /\ FetchRejected') =>
            /\ ~lastOp'.threw /\ ~lastOp'.rejected /\ lastOp'.attempts = 0
            /\ lastAttempt'.batch = lastAttempt.batch
            /\ UNCHANGED <<logQueue, flushTimer, sinceFirstAdd, added, shipped>>
       /\ FetchRejected =>
            /\ \A i \in 1..Len(logQueue') : \A j \in 1..Len(lastAttempt.batch) :
                  logQueue'[i].id # lastAttempt.batch[j].id
            /\ (lastOp'.kind = "log" /\ Len(logQueue) + 1 < BATCH_SIZE) =>
                  /\ lastOp'.attempts = 0
                  /\ Len(logQueue') = Len(logQueue) + 1
                  /\ SubSeq(logQueue', 1, Len(logQueue)) = logQueue
                  /\ flushTimer' = IF logQueue = <<>> THEN <<0>> ELSE flushTimer
            /\ (lastOp'.kind = "log" /\ Len(logQueue) + 1 = BATCH_SIZE) =>
                  /\ lastOp'.attempts = 1
                  /\ SubSeq(lastAttempt'.batch, 1, Len(logQueue)) = logQueue
                  /\ Len(lastAttempt'.batch) = BATCH_SIZE
                  /\ logQueue' = <<>> /\ flushTimer' = <<>>
            /\ lastOp'.kind = "timer" =>
                  /\ sinceFirstAdd = <<FLUSH_INTERVAL_MS>>
                  /\ lastOp'.attempts = 1
                  /\ lastAttempt'.batch = logQueue
                  /\ logQueue' = <<>> /\ flushTimer' = <<>>]_vars

C12_Witness ==
    /\ FetchRejected
    /\ lastOp.kind = "log"
    /\ Len(logQueue) = BATCH_SIZE - 1
    /\ flushTimer # <<>>

\* the delivery of the last batch failed: the transport refused the request,
\* the payload did not serialize, or the flush was rejected
DeliveryFailed ==
    \/ lastAttempt.net = "failed"
    \/ lastAttempt.outcome \in {"serializeError", "rejected"}

NoDuplicates(q) ==
    \A i, j \in 1..Len(q) : q[i] = q[j] => i = j

\* C13: a batch is handed to a transport primitive at most once; no event is
\* taken twice; the failure of a delivery changes neither buffer nor batches;
\* and after a failed delivery no event of that batch is in the buffer or in
\* the next batch.
C13_NoRetry ==
    /\ [](lastAttempt.calls <= 1 /\ NoDuplicates(shipped \o Ids(logQueue)))
    /\ [][/\ lastOp'.kind = "settle" =>
               /\ UNCHANGED <<logQueue, shipped, added>>
               /\ lastAttempt'.batch = lastAttempt.batch
               /\ lastAttempt'.calls = lastAttempt.calls
               /\ lastOp'.attempts = 0
          /\ DeliveryFailed =>
               /\ \A i \in 1..Len(logQueue') : \A j \in 1..Len(lastAttempt.batch) :
                     logQueue'[i].id # lastAttempt.batch[j].id
               /\ lastOp'.attempts > 0 =>
                     \A i \in 1..Len(lastAttempt'.batch) : \A j \in 1..Len(lastAttempt.batch) :
                       lastAttempt'.batch[i].id # lastAttempt.batch[j].id]_vars

C13_Witness ==
    /\ lastAttempt.outcome = "serializeError"
    /\ lastAttempt.calls = 0
    /\ lastOp.attempts = 1
    /\ shipped # Ids(lastAttempt.batch)

\* C14: when the payload of a batch does not serialize, the flush catches
\* the failure, calls no transport primitive and drops the batch, and the log
\* call that logged the value JSON.stringify rejects returns normally.
C14_SerializationFailureContained ==
    /\ (lastOp.attempts = 1 /\ lastAttempt.outcome = "serializeError") =>
          /\ ~lastOp.rejected
          /\ lastAttempt.calls = 0
          /\ \A i \in 1..Len(logQueue) : \A j \in 1..Len(lastAttempt.batch) :
                logQueue[i].id # lastAttempt.batch[j].id
    /\ (lastOp.kind = "log" /\ lastOp.enqueued /\ ~LastEvent.serializable) =>
          ~lastOp.threw

\* C15: an unload signal that finds events in the buffer makes exactly one
\* delivery attempt with all of them, in order, empties the buffer and clears
\* the timer; a signal that finds the buffer empty, as the second of two
\* signals in succession does, makes no attempt.
C15_ForcedFlushOnce ==
    [][lastOp'.kind = "forceFlush" =>
         /\ Len(logQueue) > 0 =>
               /\ lastOp'.attempts = 1
               /\ lastAttempt'.batch = logQueue
               /\ logQueue' = <<>>
               /\ flushTimer' = <<>>
         /\ Len(logQueue) = 0 =>
               /\ lastOp'.attempts = 0
               /\ lastAttempt' = lastAttempt
         /\ lastOp.kind = "forceFlush" =>
               /\ lastOp'.attempts = 0
               /\ UNCHANGED <<logQueue, flushTimer, shipped, lastAttempt>>]_vars

C15_Witness ==
    /\ lastOp.kind = "forceFlush"
    /\ lastOp.attempts = 1
    /\ Len(lastAttempt.batch) > 1
    /\ logQueue = <<>>
    /\ flushTimer = <<>>

\* C16: a log call below the configured level writes no console record and
\* enqueues nothing; a call at or above it writes exactly one console record
\* and, in a browser, enqueues exactly one event.
C16_LevelFilter ==
    [][lastOp'.kind = "log" =>
         IF LevelValue(lastOp'.lvl) < LevelValue(level)
         THEN /\ lastOp'.consoleLines = 0
              /\ ~lastOp'.enqueued
              /\ UNCHANGED <<logQueue, added, shipped>>
         ELSE /\ lastOp'.consoleLines = 1
              /\ isBrowser => lastOp'.enqueued /\ added' = added + 1]_vars

\* C17: setLevel changes the level and nothing else: buffer, timer and the
\* batches taken stay as they are; and a flush takes every buffered event,
\* whatever the level is by then, so an event enqueued before the level was
\* raised above its own is still in the next batch.
C17_SetLevelNotRetroactive ==
    [][/\ lastOp'.kind = "setLevel" =>
            /\ UNCHANGED <<logQueue, flushTimer, sinceFirstAdd, added, shipped, lastAttempt,
                           clientSessionRequestId, logShipper, listeners>>
            /\ lastOp'.attempts = 0
       /\ (lastOp'.attempts = 1 /\ lastOp'.kind # "log") =>
            /\ lastAttempt'.batch = logQueue
            /\ logQueue' = <<>>]_vars

C17_Witness ==
    /\ lastOp.attempts = 1
    /\ lastOp.kind \in {"timer", "forceFlush"}
    /\ \E i \in 1..Len(lastAttempt.batch) :
          LevelValue(lastAttempt.batch[i].level) < LevelValue(level)

\* the schema fields the write hook sets itself
SchemaFields == {"level", "message", "timestamp", "service"}

\* C18: in the record a browser log call writes, every schema field the
\* caller passed in the context has the caller's value, and the correlation
\* field has the resolved identifier whatever the caller passed under it.
C18_CallerKeysKept ==
    (lastOp.kind = "log" /\ isBrowser /\ lastOp.consoleLines = 1) =>
        /\ \A k \in SchemaFields \cap lastOp.keys : lastOp.record[k] = CallerValue(k)
        /\ lastOp.record["requestId"] = lastOp.requestId

\* C19: the shipper exists only in a browser and only once an event was
\* enqueued; it is constructed, and its unload listeners registered, by a log
\* call at or above the level, which enqueues its event; only such calls
\* enqueue; and outside a browser there is never a shipper, a listener, an
\* event or a delivery attempt.
C19_ShipperLazyBrowserOnly ==
    /\ [](/\ logShipper <=> added > 0
          /\ logShipper <=> listeners > 0
          /\ logShipper => isBrowser
          /\ ~isBrowser =>
                /\ logQueue = <<>> /\ shipped = <<>> /\ flushTimer = <<>>
                /\ lastAttempt = NoAttempt /\ lastOp.attempts = 0)
    /\ [][/\ (logShipper' /\ ~logShipper) =>
               /\ lastOp'.kind = "log"
               /\ LevelValue(lastOp'.lvl) >= LevelValue(level)
               /\ lastOp'.enqueued
          /\ added' # added =>
               /\ isBrowser
               /\ lastOp'.kind = "log"
               /\ LevelValue(lastOp'.lvl) >= LevelValue(level)
               /\ added' = added + 1]_vars

C19_Witness ==
    /\ isBrowser
    /\ lastOp.kind = "log"
    /\ lastOp.enqueued
    /\ logShipper
    /\ added = 1
    /\ logsLeft = MaxLevelLogs - 2

\* the state of the run and what its last operation did
Run ==
    [Cur EXCEPT !.attempts = lastOp.attempts, !.rejected = lastOp.rejected,
                !.threw = lastOp.threw, !.enqueued = lastOp.enqueued,
                !.warned = lastOp.warned, !.ret = lastOp.requestId, !.lvl = lastOp.lvl,
                !.keys = lastOp.keys, !.emitted = lastOp.emitted,
                !.consoleLines = lastOp.consoleLines, !.record = lastOp.record,
                !.adapters = lastOp.adapters,
                !.forceFlushCalls = lastOp.forceFlushCalls,
                !.fired = (lastOp.kind = "timer")]

\* a run without its runtime mode and its development warnings
ExceptWarnings(s) == [s EXCEPT !.isDevelopment = FALSE, !.warned = FALSE]

\* NEXT_PUBLIC_LOG_LEVEL or REACT_APP_LOG_LEVEL names a level
LevelConfigured == envLogLevel[1] \in LogLevels \/ envLogLevel[2] \in LogLevels

\* the buffer of a run, the batches it took, its last delivery attempt and
\* the attempts of its last operation
Delivery(s) ==
    [logShipper |-> s.logShipper, logQueue |-> s.logQueue, shipped |-> s.shipped,
     lastAttempt |-> s.lastAttempt, attempts |-> s.attempts]

\* C20 as stated: two runs given the same calls in the same environment but
\* for the runtime mode have the same buffer, take the same batches and make
\* the same delivery attempts.
C20_ModeChangesOnlyWarnings ==
    twin # <<>> => Delivery(twin[1]) = Delivery(Run)

\* C20: when the environment configures the level, the two runs differ in
\* their development warnings only; when it does not, the runtime mode also
\* chooses the level the logger starts with, debug in development and info in
\* production.
C20_ModeChangesWarningsAndDefaultLevel ==
    twin # <<>> =>
        /\ LevelConfigured => ExceptWarnings(twin[1]) = ExceptWarnings(Run)
        /\ ~LevelConfigured =>
              /\ level = IF isDevelopment THEN "debug" ELSE "info"
              /\ twin[1].level = IF isDevelopment THEN "info" ELSE "debug"

C20_Witness ==
    /\ twin # <<>>
    /\ LevelConfigured
    /\ lastOp.kind = "settle"
    /\ lastOp.warned # twin[1].warned
    /\ Len(shipped) > 1

\* C21: after two installations of the console adapters a call of a console
\* entry point passes through two adapter layers
C21_SecondInstallDoubleWraps ==
    (~isBrowser /\ installs >= 2 /\ lastOp.kind = "console") => lastOp.adapters = 2

\* C21, as the code has it: an installation replaces the entry points, so
\* after any number of installations on a server a console call passes
\* through one adapter, makes one facade call and prints at most one line,
\* and a second installation changes nothing; in a browser the installer
\* leaves the console alone
C21_InstallReplaces ==
    /\ consoleLayers = IF ~isBrowser /\ installs >= 1 THEN 1 ELSE 0
    /\ lastOp.kind = "console" =>
          /\ lastOp.adapters = consoleLayers
          /\ lastOp.consoleLines <= 1
          /\ consoleLayers = 1 =>
                lastOp.emitted = (LevelValue(lastOp.lvl) >= LevelValue(level))

C21_Witness ==
    /\ ~isBrowser
    /\ installs = 2
    /\ lastOp.kind = "console"
    /\ lastOp.adapters = 1
    /\ lastOp.consoleLines = 1

\* C22: the runtime holds at most one timeout of the shipper, and holds one
\* exactly when the timer field is set; an add sets a timeout only when none
\* was held; every flush that takes a batch leaves none held and the field
\* null
C22_OneTimer ==
    /\ [](timers <= 1 /\ timers = IF flushTimer # <<>> THEN 1 ELSE 0)
    /\ [][/\ (lastOp'.kind = "log" /\ timers' > timers) =>
               (timers = 0 /\ flushTimer = <<>>)
          /\ lastOp'.attempts >= 1 => (timers' = 0 /\ flushTimer' = <<>>)]_vars

C22_Witness ==
    /\ lastOp.kind = "forceFlush"
    /\ lastOp.attempts = 1
    /\ Len(lastAttempt.batch) >= 2
    /\ timers = 0
    /\ flushTimer = <<>>

\* C23: every flush that takes a batch whose payload serializes calls exactly
\* one transport primitive exactly once, sendBeacon when the runtime has it
\* and fetch only when it has not, and whatever the transport answers no
\* second call follows
C23_ExactlyOnePrimitive ==
    (/\ lastAttempt.outcome # "none"
     /\ \A i \in 1..Len(lastAttempt.batch) : lastAttempt.batch[i].serializable)
    => /\ lastAttempt.calls = 1
       /\ lastAttempt.outcome = IF hasSendBeacon THEN "beacon" ELSE "fetch"

\* C24: when a batch goes out by fetch, the X-Request-ID header is present
\* exactly when the payload body carries an identifier, and then both hold
\* the identifier the flush resolved; a beacon carries no header
C24_HeaderMatchesBody ==
    /\ lastAttempt.outcome = "fetch" =>
          /\ (lastAttempt.header # <<>>) = (lastAttempt.requestId # <<>>)
          /\ lastAttempt.header = lastAttempt.requestId
    /\ (lastAttempt.outcome = "fetch" /\ lastOp.attempts = 1) =>
          lastAttempt.header = lastOp.requestId
    /\ lastAttempt.outcome = "beacon" => lastAttempt.header = <<>>

C24_Witness ==
    /\ lastAttempt.outcome = "fetch"
    /\ lastOp.attempts = 1
    /\ cookie = CookiePlain
    /\ lastAttempt.header = <<"a", "b", "c">>
    /\ lastAttempt.requestId = <<"a", "b", "c">>

\* C25: the unload listeners are registered once, when the shipper is
\* constructed: each signal has one listener exactly when the shipper exists
\* and none before, the count changes only in the step that constructs the
\* shipper, and one signal makes one call of forceFlush
C25_ListenersOnce ==
    /\ [](/\ listeners = IF logShipper THEN 1 ELSE 0
          /\ lastOp.kind = "forceFlush" => lastOp.forceFlushCalls = 1)
    /\ [][listeners' # listeners => (~logShipper /\ logShipper')]_vars

C25_Witness ==
    /\ lastOp.kind = "forceFlush"
    /\ lastOp.forceFlushCalls = 1
    /\ lastOp.attempts = 1
    /\ Len(lastAttempt.batch) >= 2
    /\ listeners = 1

Buffered(i) == \E k \in 1..Len(logQueue) : logQueue[k].id = i
Taken(i) == \E k \in 1..Len(shipped) : shipped[k] = i

\* C27: between operations the timer is pending exactly when the buffer is
\* not empty; the timer callback always finds events and takes them; and,
\* the clock advancing and due timers firing, every buffered event is
\* eventually taken into the batch of a flush
C27_TimerIffBuffered ==
    /\ []((flushTimer # <<>>) = (logQueue # <<>>))
    /\ [][lastOp'.kind = "timer" =>
            (logQueue # <<>> /\ lastOp'.attempts = 1 /\ lastAttempt'.batch = logQueue)]_vars
    /\ \A i \in 1..MaxTimerLogs : Buffered(i) ~> Taken(i)

C27_Witness ==
    /\ lastOp.kind = "timer"
    /\ lastOp.attempts = 1
    /\ Len(lastAttempt.batch) >= 2
    /\ Taken(2)
    /\ logQueue = <<>>
    /\ flushTimer = <<>>

\* C28: between operations the buffer holds fewer than BATCH_SIZE events, and
\* every batch a flush takes holds at least one event and at most BATCH_SIZE
C28_BufferAndBatchBounds ==
    /\ Len(logQueue) < BATCH_SIZE
    /\ lastAttempt.outcome # "none" =>
          (Len(lastAttempt.batch) >= 1 /\ Len(lastAttempt.batch) <= BATCH_SIZE)
    /\ lastOp.attempts >= 1 => lastAttempt.batch # <<>>

C28_Witness ==
    /\ Len(lastAttempt.batch) = BATCH_SIZE
    /\ Len(logQueue) = 1
    /\ lastOp.kind = "log"

\* C29: when the carrier cookie is at the flush what it was at each log call
\* of the batch, the identifier in the payload is the identifier stored in
\* the context of every event of the batch
C29_PayloadIdIsEventId ==
    (/\ lastOp.attempts = 1
     /\ lastAttempt.calls = 1
     /\ \A i \in 1..Len(lastAttempt.batch) : lastAttempt.batch[i].cookie = cookie)
    => \A i \in 1..Len(lastAttempt.batch) :
          lastAttempt.batch[i].requestId = lastAttempt.requestId

====
